---- MODULE Spec2Model ----
(***************************************************************************)
(* State-machine model of surechembl_mini_client.py: the front-file run    *)
(* (load_frontfile), the back-file run (load_backfile), the directory      *)
(* lister (get_tsv_dir), the batch fetcher (get_frontfile_df) and the      *)
(* loader (dfloader), over a small remote tree, a backlog file and a       *)
(* destination table.                                                      *)
(*                                                                         *)
(* Strings are sequences of tokens: a token is a path component, the       *)
(* separator "/" or the line terminator "\n"; concatenation of strings is  *)
(* concatenation of sequences.                                             *)
(***************************************************************************)
EXTENDS Integers, Sequences, FiniteSets, TLC

\* ------------------------------------------------------------------------
\* Bounds
\* ------------------------------------------------------------------------
MaxRuns == 2

\* ------------------------------------------------------------------------
\* Tokens and strings
\* ------------------------------------------------------------------------
SL == "/"
NL == "\n"
FF == "data/external/frontfile"
BF == "data/external/backfile"
MANIFEST == "newfiles.txt"
None == 0

\* generic: the subsequence of s at the indices satisfying Keep, in order
FilterIdx(s, Keep(_)) ==
  LET F[i \in 0..Len(s)] ==
        IF i = 0 THEN <<>>
        ELSE IF Keep(i) THEN Append(F[i-1], s[i]) ELSE F[i-1]
  IN F[Len(s)]

Range(s) == {s[i] : i \in 1..Len(s)}

\* str(n) for the numbers the model uses
Str(n) ==
  CASE n = 1 -> "1" [] n = 2 -> "2" [] n = 6 -> "6" [] n = 2024 -> "2024"

\* s.zfill(2)
ZFill2(s) ==
  CASE s = "1" -> "01" [] s = "2" -> "02" [] s = "6" -> "06" [] OTHER -> s

\* line.rstrip('\n')
RECURSIVE RStripNL(_)
RStripNL(s) ==
  IF Len(s) > 0 /\ s[Len(s)] = NL THEN RStripNL(SubSeq(s, 1, Len(s) - 1)) ELSE s

\* s.rstrip('/')
RECURSIVE RStripSL(_)
RStripSL(s) ==
  IF Len(s) > 0 /\ s[Len(s)] = SL THEN RStripSL(SubSeq(s, 1, Len(s) - 1)) ELSE s

\* "for line in f": the lines of a text, each with its terminator
RECURSIVE ReadLines(_)
ReadLines(text) ==
  IF text = <<>> THEN <<>>
  ELSE LET nls == {i \in 1..Len(text) : text[i] = NL}
       IN IF nls = {} THEN <<text>>
          ELSE LET k == CHOOSE i \in nls : \A j \in nls : i <= j
               IN <<SubSeq(text, 1, k)>> \o ReadLines(SubSeq(text, k + 1, Len(text)))

\* os.path.split
PathSplit(p) ==
  LET sls  == {i \in 1..Len(p) : p[i] = SL}
      k    == IF sls = {} THEN 0 ELSE CHOOSE i \in sls : \A j \in sls : j <= i
      head == SubSeq(p, 1, k)
      tail == SubSeq(p, k + 1, Len(p))
  IN <<IF head # <<>> /\ \E i \in 1..Len(head) : head[i] # SL THEN RStripSL(head) ELSE head,
       tail>>

\* the components of a path
Comps(p) == SelectSeq(p, LAMBDA t : t # SL)
IsAbs(p) == Len(p) > 0 /\ p[1] = SL

\* the directory a CWD argument names, from the connection's directory
Resolve(cur, p) == IF IsAbs(p) THEN Comps(p) ELSE cur \o Comps(p)

\* ftp.pwd(): the absolute path string of a directory
RECURSIVE PwdStr(_)
PwdStr(dir) ==
  IF dir = <<>> THEN <<SL>>
  ELSE IF Len(dir) = 1 THEN <<SL, dir[1]>>
  ELSE PwdStr(SubSeq(dir, 1, Len(dir) - 1)) \o <<SL, dir[Len(dir)]>>

HasNL(p) == \E i \in 1..Len(p) : p[i] = NL

\* ------------------------------------------------------------------------
\* The remote tree
\* ------------------------------------------------------------------------
\* dates of the model: one year, one month, the days below
YearNums == {2024}
MonthNums == {6}
DayNums == {1, 2}

\* names of the day directories on the server
RemoteDayName(d) == CASE d = 1 -> "01" [] d = 2 -> "02"
RemoteMonthName == "06"
RemoteYearName == "2024"

\* what a published day directory looks like
Layouts == {"manifest", "loose", "empty", "dupman"}
Absent == "absent"

\* further layouts: a manifest with two data lines for one directory, a manifest
\* with data lines for two directories, a manifest without a data line next to
\* a loose data file, two loose data files
ListerLayouts == Layouts \cup {"manifest2", "manifestx", "manifest0", "loose2"}

\* the data file of a day and its rows
DataFile(d) == CASE d = 1 -> "f1.chemicals.tsv.gz" [] d = 2 -> "f2.chemicals.tsv.gz"
SuppFile(d) == CASE d = 1 -> "f1.supp.chemicals.tsv.gz" [] d = 2 -> "f2.supp.chemicals.tsv.gz"
ExtraFile(d) == CASE d = 1 -> "g1.chemicals.tsv.gz" [] d = 2 -> "g2.chemicals.tsv.gz"
OtherDay(d) == CASE d = 1 -> 2 [] d = 2 -> 1

\* back-file year directories, in listing order, and their files
BackYears == <<"1949", "1950", "1951", "1952_a">>
BackFiles(y) ==
  CASE y = "1949" -> <<"readme.txt">>
    [] y = "1950" -> <<"b1.chemicals.tsv.gz">>
    [] y = "1951" -> <<>>
    [] y = "1952_a" -> <<"readme.txt", "b2.chemicals.tsv.gz", "b3.chemicals.tsv.gz">>

\* int(year.split('_')[0])
YearNum(y) ==
  CASE y = "1949" -> 1949 [] y = "1950" -> 1950 [] y = "1951" -> 1951 [] y = "1952_a" -> 1952
YearArgs == {1949, 1951, 1952}

Row(k, v) == [id |-> k, v |-> v]

\* the rows a data file holds (SureChEMBL ID and the three text columns)
FileRows(f) ==
  CASE f = "f1.chemicals.tsv.gz" -> <<Row(1, "a"), Row(2, "a"), Row(1, "x")>>
    [] f = "f2.chemicals.tsv.gz" -> <<Row(2, "b"), Row(3, "b")>>
    [] f = "b1.chemicals.tsv.gz" -> <<Row(1, "c")>>
    [] f = "b2.chemicals.tsv.gz" -> <<Row(1, "d"), Row(3, "d")>>
    [] f = "b3.chemicals.tsv.gz" -> <<Row(3, "e"), Row(2, "e")>>
    [] f = "g1.chemicals.tsv.gz" -> <<Row(2, "g"), Row(4, "g")>>
    [] f = "g2.chemicals.tsv.gz" -> <<Row(3, "h"), Row(4, "h")>>
    [] OTHER -> <<>>

\* substring and suffix tests on names
NameHasChemicals(t) ==
  t \in {"f1.chemicals.tsv.gz", "f2.chemicals.tsv.gz", "f1.supp.chemicals.tsv.gz",
         "f2.supp.chemicals.tsv.gz", "b1.chemicals.tsv.gz", "b2.chemicals.tsv.gz",
         "b3.chemicals.tsv.gz", "g1.chemicals.tsv.gz", "g2.chemicals.tsv.gz"}
NameHasSupp(t) == t \in {"f1.supp.chemicals.tsv.gz", "f2.supp.chemicals.tsv.gz"}
EndsChemTsvGz(t) == NameHasChemicals(t)
EndsTsvGz(t) == NameHasChemicals(t)

DayDir(d) == <<FF, RemoteYearName, RemoteMonthName, RemoteDayName(d)>>

\* ftp.nlst() of a directory
Nlst(rem, dir) ==
  IF dir = <<FF, RemoteYearName>> THEN <<RemoteMonthName>>
  ELSE IF dir = <<FF, RemoteYearName, RemoteMonthName>>
    THEN FilterIdx(<<RemoteDayName(1), RemoteDayName(2)>>, LAMBDA i : rem[i] # Absent)
  ELSE IF \E d \in DayNums : dir = DayDir(d) /\ rem[d] # Absent
    THEN LET d == CHOOSE e \in DayNums : dir = DayDir(e)
         IN CASE rem[d] = "manifest"  -> <<MANIFEST, SuppFile(d), DataFile(d)>>
              [] rem[d] = "loose"     -> <<DataFile(d)>>
              [] rem[d] = "dupman"    -> <<MANIFEST, MANIFEST>>
              [] rem[d] = "manifest2" -> <<MANIFEST, DataFile(d), ExtraFile(d)>>
              [] rem[d] = "manifestx" -> <<MANIFEST, DataFile(d)>>
              [] rem[d] = "manifest0" -> <<MANIFEST, SuppFile(d), DataFile(d)>>
              [] rem[d] = "loose2"    -> <<DataFile(d), ExtraFile(d)>>
              [] OTHER                -> <<>>
  ELSE IF dir = <<BF>> THEN BackYears
  ELSE IF \E i \in 1..Len(BackYears) : dir = <<BF, BackYears[i]>>
    THEN BackFiles(dir[2])
  ELSE <<>>

\* the directories that exist on the server
DirExists(rem, dir) ==
  \/ dir \in {<<>>, <<FF>>, <<FF, RemoteYearName>>, <<FF, RemoteYearName, RemoteMonthName>>, <<BF>>}
  \/ \E d \in DayNums : dir = DayDir(d) /\ rem[d] # Absent
  \/ \E i \in 1..Len(BackYears) : dir = <<BF, BackYears[i]>>

\* the text of newfiles.txt in a day directory
ManifestText(d) ==
  <<SL, RemoteYearName, SL, RemoteMonthName, SL, RemoteDayName(d), SL, SuppFile(d), NL,
    SL, RemoteYearName, SL, RemoteMonthName, SL, RemoteDayName(d), SL, DataFile(d), NL>>

\* one line of newfiles.txt: file f in the directory of day d
ManifestLine(d, f) ==
  <<SL, RemoteYearName, SL, RemoteMonthName, SL, RemoteDayName(d), SL, f, NL>>

\* the text of newfiles.txt in a day directory of a given layout
ManifestTextOf(layout, d) ==
  CASE layout = "manifest"  -> ManifestText(d)
    [] layout = "manifest2" -> ManifestLine(d, DataFile(d)) \o ManifestLine(d, ExtraFile(d))
    [] layout = "manifestx" -> ManifestLine(d, DataFile(d))
                                 \o ManifestLine(OtherDay(d), DataFile(OtherDay(d)))
    [] layout = "manifest0" -> ManifestLine(d, SuppFile(d))
    [] OTHER                -> <<>>

\* ------------------------------------------------------------------------
\* Row sets (data frames) and the destination table
\* ------------------------------------------------------------------------
KeySet(rows) == {rows[i].id : i \in 1..Len(rows)}
HasDupKeys(rows) == \E i, j \in 1..Len(rows) : i < j /\ rows[i].id = rows[j].id

\* keep='last'
DropDuplicates_KeepLast(rows) ==
  FilterIdx(rows, LAMBDA i : \A j \in (i + 1)..Len(rows) : rows[j].id # rows[i].id)

\* DataFrame.drop_duplicates(subset=unique_col, keep='first')
DropDuplicates(rows) ==
  FilterIdx(rows, LAMBDA i : \A j \in 1..(i - 1) : rows[j].id # rows[i].id)

\* parse_chemicals_file on a readable file: column subset, rename, drop duplicates
ParseRows(f) == DropDuplicates(FileRows(f))

\* one driver for each branch of dfloader's DELETE statement
Drivers == {"psycopg2", "cx_oracle"}

\* df.to_sql(..., if_exists='append'): the rows go after the table's rows
AppendRows(tbl, rows) == tbl \o rows

\* DELETE without the key condition: every row but one is deleted
DedupRows_NoKeyMatch(tbl, drv) ==
  IF drv \in {"psycopg2", "mysqldb"}
  THEN FilterIdx(tbl, LAMBDA i : ~ \E j \in 1..Len(tbl) : i < j)
  ELSE FilterIdx(tbl, LAMBDA i : \A j \in 1..Len(tbl) : i <= j)

\* no DELETE at all
DedupRows_Skipped(tbl, drv) == tbl

\* the DELETE statement of dfloader; a row's position is its ctid / rowid
DedupRows(tbl, drv) ==
  IF drv \in {"psycopg2", "mysqldb"}
  THEN \* DELETE T1 USING T2 WHERE T1.ctid < T2.ctid AND T1.key = T2.key
       FilterIdx(tbl, LAMBDA i : ~ \E j \in 1..Len(tbl) : i < j /\ tbl[i].id = tbl[j].id)
  ELSE \* DELETE WHERE rowid NOT IN (SELECT MIN(rowid) GROUP BY key)
       FilterIdx(tbl, LAMBDA i : \A j \in 1..Len(tbl) : tbl[j].id = tbl[i].id => i <= j)

\* ------------------------------------------------------------------------
\* get_tsv_dir and get_frontfile_df
\* ------------------------------------------------------------------------
\* a dict as the sequence of its items in insertion order; d[k] = v
DictSet(d, k, v) ==
  IF \E i \in 1..Len(d) : d[i][1] = k
  THEN [i \in 1..Len(d) |-> IF d[i][1] = k THEN <<k, v>> ELSE d[i]]
  ELSE Append(d, <<k, v>>)

LineIsData(line) ==
  /\ \E i \in 1..Len(line) : NameHasChemicals(line[i])
  /\ ~ \E i \in 1..Len(line) : NameHasSupp(line[i])

\* the text retrieved as newfiles.txt in directory dir
ManifestOf(rem, dir) ==
  IF \E d \in DayNums : dir = DayDir(d)
  THEN LET d == CHOOSE e \in DayNums : dir = DayDir(e) IN ManifestTextOf(rem[d], d)
  ELSE <<>>

\* the loose files are looked at first
ListerStrategy_TsvFirst(newfiles_list, tsv_list) ==
  IF tsv_list # <<>> THEN "tsv"
  ELSE IF newfiles_list # <<>> THEN "newfiles"
  ELSE "none"

\* if newfiles_list: ... elif tsv_list: ... else: ...
ListerStrategy(newfiles_list, tsv_list) ==
  IF newfiles_list # <<>> THEN "newfiles"
  ELSE IF tsv_list # <<>> THEN "tsv"
  ELSE "none"

\* get_tsv_dir with the connection in directory dir:
\* fatal when there is more than one newfiles.txt, else the mapping
GetTsvDir(rem, dir) ==
  LET frontfile_dir == PwdStr(dir)
      f_list        == Nlst(rem, dir)
      tsv_list      == SelectSeq(f_list, EndsChemTsvGz)
      newfiles_list == SelectSeq(f_list, LAMBDA t : t = MANIFEST)
      lines         == ReadLines(ManifestOf(rem, dir))
      FromLines[i \in 0..Len(lines)] ==
        IF i = 0 THEN <<>>
        ELSE IF LineIsData(lines[i])
          THEN LET sp == PathSplit(RStripNL(lines[i]))
               IN DictSet(FromLines[i-1], sp[1], sp[2])
          ELSE FromLines[i-1]
      FromTsv[i \in 0..Len(tsv_list)] ==
        IF i = 0 THEN <<>> ELSE DictSet(FromTsv[i-1], frontfile_dir, <<tsv_list[i]>>)
  IN [fatal |-> Len(newfiles_list) > 1,
      dict  |-> CASE ListerStrategy(newfiles_list, tsv_list) = "newfiles" ->
                       FromLines[Len(lines)]
                  [] ListerStrategy(newfiles_list, tsv_list) = "tsv" ->
                       FromTsv[Len(tsv_list)]
                  [] OTHER -> <<>>]

\* what parse_chemicals_file and its caller do to the local copy of file f,
\* disk being the copies in the working directory after the download:
\* a file in bad cannot be opened or read (os.remove in the except clause), a
\* file in nocols reads but lacks a required column (KeyError after the try
\* block), any other file parses and the caller removes it
AfterParse(disk, f, bad, nocols) ==
  IF f \in bad THEN disk \ {f}
  ELSE IF f \in nocols THEN disk
  ELSE disk \ {f}

\* get_frontfile_df from the connection's start directory home; bad and nocols
\* as in AfterParse, disk the local copies before the call. err is "none" or
\* the exception, disk the local copies after the call.
GetFrontfileDf(rem, dir_dict, home, bad, nocols, disk) ==
  LET Step[i \in 0..Len(dir_dict)] ==
        IF i = 0 THEN [err |-> "none", rows |-> <<>>, disk |-> disk]
        ELSE LET prev == Step[i-1]
                 tsv_dir == dir_dict[i][1]
                 tsv == dir_dict[i][2]
                 target == Resolve(home, <<FF>> \o tsv_dir)
             IN IF prev.err # "none" THEN prev
                ELSE IF HasNL(tsv_dir)
                  THEN [err |-> "value_error", rows |-> <<>>, disk |-> prev.disk]
                ELSE IF ~ DirExists(rem, target)
                  THEN [err |-> "transport_error", rows |-> <<>>, disk |-> prev.disk]
                ELSE IF tsv \notin {<<t>> : t \in Range(Nlst(rem, target))}
                  THEN \* open(tsv, 'wb') has created the file when RETR raises
                       [err |-> "transport_error", rows |-> <<>>,
                        disk |-> prev.disk \cup {tsv[1]}]
                ELSE IF tsv[1] \in bad \/ tsv[1] \in nocols
                  THEN [err |-> "parse_error", rows |-> <<>>,
                        disk |-> AfterParse(prev.disk \cup {tsv[1]}, tsv[1], bad, nocols)]
                ELSE [err |-> "none", rows |-> prev.rows \o ParseRows(tsv[1]),
                      disk |-> AfterParse(prev.disk \cup {tsv[1]}, tsv[1], bad, nocols)]
      last == Step[Len(dir_dict)]
  IN [err |-> last.err, rows |-> DropDuplicates(last.rows), disk |-> last.disk]

\* ------------------------------------------------------------------------
\* State
\* ------------------------------------------------------------------------
VARIABLES
  remote,              \* the layout of each day directory on the server, or Absent
  backlogFile,         \* schembl_backlog.txt: whether it exists and its text
  table,               \* the rows of the destination table, in physical order
  pk,                  \* whether the primary-key constraint is attached
  driver,              \* engine.dialect.driver
  pc,                  \* position of the current run, "idle" between runs
  runs,                \* number of runs started
  mode,                \* the date mode of the current or last run
  frontfile_dir_list,  \* the resolved partition paths
  idx,                 \* loop position in frontfile_dir_list / year_list
  df,                  \* the row set collected for loading
  visited,             \* the paths whose change-directory succeeded in this run
  old_tbl_count,       \* count_rows before the load
  exitKind,            \* how the last run ended, "none" while running
  openConns,           \* connections opened in this run and not closed
  opened,              \* connections opened in this run
  year_list,           \* the listing of the back-file root
  start_year,
  end_year,
  loaded,              \* years loaded in this back-file run
  tsv_dir_dict,        \* the mapping get_tsv_dir returned last
  localFiles,          \* the copies of data files in the working directory
  ftpAlive             \* whether the connection held in ftp is open

vars == <<remote, backlogFile, table, pk, driver, pc, runs, mode, frontfile_dir_list,
          idx, df, visited, old_tbl_count, exitKind, openConns, opened, year_list,
          start_year, end_year, loaded, tsv_dir_dict,
          localFiles, ftpAlive>>

NoBacklog == [exists |-> FALSE, text |-> <<>>]

Init ==
  /\ remote = [d \in DayNums |-> Absent]
  /\ backlogFile = NoBacklog
  /\ table = <<>>
  /\ pk = TRUE
  /\ driver \in Drivers
  /\ pc = "idle"
  /\ runs = 0
  /\ mode = "none"
  /\ frontfile_dir_list = <<>>
  /\ idx = 1
  /\ df = <<>>
  /\ visited = <<>>
  /\ old_tbl_count = 0
  /\ exitKind = "none"
  /\ openConns = 0
  /\ opened = 0
  /\ year_list = <<>>
  /\ start_year = None
  /\ end_year = None
  /\ loaded = 0
  /\ tsv_dir_dict = <<>>
  /\ localFiles = {}
  /\ ftpAlive = FALSE

\* ------------------------------------------------------------------------
\* The environment: a day directory is published
\* ------------------------------------------------------------------------
Publish(d, layout) ==
  /\ pc = "idle"
  /\ remote[d] = Absent
  /\ remote' = [remote EXCEPT ![d] = layout]
  /\ UNCHANGED <<backlogFile, table, pk, driver, pc, runs, mode, frontfile_dir_list,
                 idx, df, visited, old_tbl_count, exitKind, openConns, opened,
                 year_list, start_year, end_year, loaded,
                 tsv_dir_dict, localFiles, ftpAlive>>

\* ------------------------------------------------------------------------
\* load_frontfile
\* ------------------------------------------------------------------------
\* the branch of the date-mode conditional that is taken
ModeOf(custom_day, custom_month, custom_year) ==
  IF custom_day = None /\ custom_month = None /\ custom_year = None THEN "today"
  ELSE IF custom_day = None /\ custom_month = None /\ custom_year # None THEN "year"
  ELSE IF custom_day = None /\ custom_month # None /\ custom_year # None THEN "month"
  ELSE IF (custom_day # None /\ custom_month = None) \/ custom_year = None THEN "invalid"
  ELSE "day"

\* 'data/external/frontfile/{}/{}/{}'.format(year, month, day)
DayPath(y, m, d) == <<FF, SL, Str(y), SL, ZFill2(Str(m)), SL, ZFill2(Str(d))>>

\* the lines of the backlog file, as appended to the list in today mode
BacklogLines(bf) == IF bf.exists THEN ReadLines(bf.text) ELSE <<>>

\* year mode: one path per day of every month listed under the year
YearModeList(rem, frontfile_dir) ==
  LET months == Nlst(rem, Resolve(<<>>, frontfile_dir))
      F[i \in 0..Len(months)] ==
        IF i = 0 THEN <<>>
        ELSE LET days == Nlst(rem, Resolve(<<>>, frontfile_dir \o <<SL, months[i]>>))
             IN F[i-1] \o [k \in 1..Len(days) |->
                             frontfile_dir \o <<SL, months[i], SL, days[k]>>]
  IN F[Len(months)]

\* the day directories taken last to first
MonthModeList_Reversed(rem, frontfile_dir) ==
  LET days == Nlst(rem, Resolve(<<>>, frontfile_dir))
  IN [k \in 1..Len(days) |-> frontfile_dir \o <<SL, days[Len(days) + 1 - k]>>]

\* month mode: one path per day listed under the month
MonthModeList(rem, frontfile_dir) ==
  LET days == Nlst(rem, Resolve(<<>>, frontfile_dir))
  IN [k \in 1..Len(days) |-> frontfile_dir \o <<SL, days[k]>>]

\* today mode with the backlog lines ahead of today's path
ResolveList_BacklogFirst(rem, bf, m, custom_day, custom_month, custom_year, today) ==
  CASE m = "today" -> BacklogLines(bf) \o <<DayPath(today[1], today[2], today[3])>>
    [] m = "year"  -> YearModeList(rem, <<FF, SL, Str(custom_year)>>)
    [] m = "month" -> MonthModeList(rem, <<FF, SL, Str(custom_year), SL, ZFill2(Str(custom_month))>>)
    [] m = "day"   -> <<DayPath(custom_year, custom_month, custom_day)>>
    [] OTHER       -> <<>>

\* the resolved list of a run
ResolveList(rem, bf, m, custom_day, custom_month, custom_year, today) ==
  CASE m = "today" -> <<DayPath(today[1], today[2], today[3])>> \o BacklogLines(bf)
    [] m = "year"  -> YearModeList(rem, <<FF, SL, Str(custom_year)>>)
    [] m = "month" -> MonthModeList(rem, <<FF, SL, Str(custom_year), SL, ZFill2(Str(custom_month))>>)
    [] m = "day"   -> <<DayPath(custom_year, custom_month, custom_day)>>
    [] OTHER       -> <<>>

\* the run ends
Exit(kind) == pc' = "idle" /\ exitKind' = kind

FFStart(custom_day, custom_month, custom_year, today, connOk) ==
  /\ pc = "idle"
  /\ runs < MaxRuns
  /\ runs' = runs + 1
  /\ LET m == ModeOf(custom_day, custom_month, custom_year) IN
     /\ mode' = m
     /\ idx' = 1
     /\ df' = <<>>
     /\ visited' = <<>>
     /\ old_tbl_count' = 0
     /\ loaded' = 0
     /\ IF ~ connOk
        THEN \* ftp_connect raises
             /\ Exit("conn_error")
             /\ openConns' = 0 /\ opened' = 0
             /\ frontfile_dir_list' = <<>>
             /\ UNCHANGED backlogFile
        ELSE /\ openConns' = 1 /\ opened' = 1
             /\ IF m = "invalid"
                THEN \* raise ValueError, after the connection was made
                     /\ Exit("config_error")
                     /\ frontfile_dir_list' = <<>>
                     /\ UNCHANGED backlogFile
                ELSE /\ pc' = "ff_visit" /\ exitKind' = "none"
                     /\ frontfile_dir_list' =
                          ResolveList(remote, backlogFile, m, custom_day, custom_month,
                                      custom_year, today)
                     /\ backlogFile' = IF m = "today" THEN NoBacklog ELSE backlogFile
  /\ tsv_dir_dict' = <<>>
  /\ ftpAlive' = connOk
  /\ UNCHANGED localFiles
  /\ UNCHANGED <<remote, table, pk, driver, year_list, start_year, end_year>>

\* open(backlog, 'a'); f.write(ff_dir + '\n')
BacklogAppend(bf, ff_dir) == [exists |-> TRUE, text |-> bf.text \o ff_dir \o <<NL>>]

\* the loop goes on to the next partition instead of exiting
AfterBacklogWrite_Continue(i) == [pc |-> "ff_visit", exit |-> "none", idx |-> i + 1]

\* what follows the backlog write for the partition at position i: sys.exit()
AfterBacklogWrite(i) == [pc |-> "idle", exit |-> "backlog_halt", idx |-> i]

\* one iteration of the loop over frontfile_dir_list.
\* nlOutcome: what the transport does with a path that holds a line terminator;
\* bad: the files that cannot be opened or parsed.
FFVisit(nlOutcome, bad, nocols) ==
  /\ pc = "ff_visit"
  /\ idx <= Len(frontfile_dir_list)
  /\ LET ff_dir   == frontfile_dir_list[idx]
         dir      == Resolve(<<>>, ff_dir)
         rejected == HasNL(ff_dir) /\ nlOutcome = "value_error"
         notFound == IF HasNL(ff_dir) THEN nlOutcome = "not_found"
                     ELSE ~ DirExists(remote, dir)
         lst      == GetTsvDir(remote, dir)
         res      == GetFrontfileDf(remote, lst.dict, <<>>, bad, nocols, localFiles)
     IN IF rejected
        THEN \* ftplib refuses the command: ValueError, not caught
             /\ Exit("value_error")
             /\ UNCHANGED <<backlogFile, idx, df, visited, tsv_dir_dict, localFiles>>
        ELSE IF notFound
        THEN \* ftplib.error_perm: write the backlog and exit
             /\ backlogFile' = BacklogAppend(backlogFile, ff_dir)
             /\ pc' = AfterBacklogWrite(idx).pc
             /\ exitKind' = AfterBacklogWrite(idx).exit
             /\ idx' = AfterBacklogWrite(idx).idx
             /\ UNCHANGED <<df, visited, tsv_dir_dict, localFiles>>
        ELSE /\ visited' = Append(visited, ff_dir)
             /\ UNCHANGED backlogFile
             /\ IF lst.fatal
                THEN \* more than one newfiles.txt: sys.exit()
                     /\ Exit("invariant_violation")
                     /\ UNCHANGED <<idx, df, tsv_dir_dict, localFiles>>
                ELSE /\ tsv_dir_dict' = lst.dict
                     /\ IF lst.dict = <<>>
                        THEN /\ idx' = idx + 1
                             /\ UNCHANGED <<pc, exitKind, df, localFiles>>
                        ELSE /\ localFiles' = res.disk
                             /\ IF res.err # "none"
                                THEN /\ Exit(res.err)
                                     /\ UNCHANGED <<idx, df>>
                                ELSE IF res.rows = <<>>
                                THEN /\ idx' = idx + 1
                                     /\ UNCHANGED <<pc, exitKind, df>>
                                ELSE /\ df' = DropDuplicates(df \o res.rows)
                                     /\ idx' = idx + 1
                                     /\ UNCHANGED <<pc, exitKind>>
  /\ UNCHANGED <<remote, table, pk, driver, runs, mode, frontfile_dir_list, old_tbl_count,
                 openConns, opened, year_list, start_year, end_year, loaded, ftpAlive>>

\* the constraint is dropped before the test for an empty row set
FFFinish_DropsKeyFirst ==
  /\ pc = "ff_visit"
  /\ idx > Len(frontfile_dir_list)
  /\ openConns' = openConns - 1
  /\ ftpAlive' = FALSE
  /\ pk' = FALSE
  /\ IF df = <<>>
     THEN Exit("no_records") /\ UNCHANGED old_tbl_count
     ELSE pc' = "ff_drop" /\ old_tbl_count' = Len(table) /\ UNCHANGED exitKind
  /\ UNCHANGED <<remote, backlogFile, table, driver, runs, mode, frontfile_dir_list,
                 idx, df, visited, opened, year_list, start_year, end_year, loaded,
                 tsv_dir_dict, localFiles>>

\* the loop is left after its first iteration
FFFinish_Early ==
  /\ pc = "ff_visit"
  /\ idx > 1
  /\ openConns' = openConns - 1
  /\ ftpAlive' = FALSE
  /\ IF df = <<>>
     THEN Exit("no_records") /\ UNCHANGED old_tbl_count
     ELSE pc' = "ff_drop" /\ old_tbl_count' = Len(table) /\ UNCHANGED exitKind
  /\ UNCHANGED <<remote, backlogFile, table, pk, driver, runs, mode, frontfile_dir_list,
                 idx, df, visited, opened, year_list, start_year, end_year, loaded,
                 tsv_dir_dict, localFiles>>

\* after the loop: ftp.quit(), the no-records exit, count_rows
FFFinish ==
  /\ pc = "ff_visit"
  /\ idx > Len(frontfile_dir_list)
  /\ openConns' = openConns - 1
  /\ ftpAlive' = FALSE
  /\ IF df = <<>>
     THEN Exit("no_records") /\ UNCHANGED old_tbl_count
     ELSE pc' = "ff_drop" /\ old_tbl_count' = Len(table) /\ UNCHANGED exitKind
  /\ UNCHANGED <<remote, backlogFile, table, pk, driver, runs, mode, frontfile_dir_list,
                 idx, df, visited, opened, year_list, start_year, end_year, loaded,
                 tsv_dir_dict, localFiles>>

\* ALTER TABLE ... DROP CONSTRAINT, any exception logged and ignored
DropConstraint(attached, sqlOk) == IF attached /\ sqlOk THEN FALSE ELSE attached

FFDrop(sqlOk) ==
  /\ pc = "ff_drop"
  /\ pk' = DropConstraint(pk, sqlOk)
  /\ pc' = "ff_dfloader"
  /\ UNCHANGED <<remote, backlogFile, table, driver, runs, mode, frontfile_dir_list, idx,
                 df, visited, old_tbl_count, exitKind, openConns, opened, year_list,
                 start_year, end_year, loaded,
                 tsv_dir_dict, localFiles, ftpAlive>>

\* dfloader: append, then the DELETE statement.
\* outcome: "ok", or the statement that raises
Dfloader(outcome) ==
  /\ pc \in {"ff_dfloader", "bf_dfloader"}
  /\ IF outcome = "append_error" \/ (pk /\ HasDupKeys(AppendRows(table, df)))
     THEN \* to_sql raises (an SQL error, or the attached key rejects the rows)
          /\ Exit("sql_error")
          /\ UNCHANGED <<table, idx, loaded>>
     ELSE IF outcome = "dedup_error"
     THEN /\ table' = AppendRows(table, df)
          /\ Exit("sql_error")
          /\ UNCHANGED <<idx, loaded>>
     ELSE /\ table' = DedupRows(AppendRows(table, df), driver)
          /\ UNCHANGED exitKind
          /\ IF pc = "ff_dfloader"
             THEN pc' = "ff_addpk" /\ UNCHANGED <<idx, loaded>>
             ELSE pc' = "bf_year" /\ idx' = idx + 1 /\ loaded' = loaded + 1
  /\ UNCHANGED <<remote, backlogFile, pk, driver, runs, mode, frontfile_dir_list, df,
                 visited, old_tbl_count, openConns, opened, year_list, start_year,
                 end_year,
                 tsv_dir_dict, localFiles, ftpAlive>>

\* whether ALTER TABLE ... ADD PRIMARY KEY succeeds
AddKeySucceeds(tbl, attached, sqlOk) == sqlOk /\ ~ attached /\ ~ HasDupKeys(tbl)

\* front-file: the statement's exception propagates
FFAddPK(sqlOk) ==
  /\ pc = "ff_addpk"
  /\ IF AddKeySucceeds(table, pk, sqlOk)
     THEN pk' = TRUE /\ Exit("ok")
     ELSE UNCHANGED pk /\ Exit("addpk_error")
  /\ UNCHANGED <<remote, backlogFile, table, driver, runs, mode, frontfile_dir_list, idx,
                 df, visited, old_tbl_count, openConns, opened, year_list, start_year,
                 end_year, loaded,
                 tsv_dir_dict, localFiles, ftpAlive>>

\* ------------------------------------------------------------------------
\* load_backfile
\* ------------------------------------------------------------------------
BFStart(sy, ey, connOk, sqlOk) ==
  /\ pc = "idle"
  /\ runs < MaxRuns
  /\ runs' = runs + 1
  /\ mode' = "back"
  /\ start_year' = sy
  /\ end_year' = ey
  /\ idx' = 1
  /\ df' = <<>>
  /\ visited' = <<>>
  /\ frontfile_dir_list' = <<>>
  /\ old_tbl_count' = 0
  /\ loaded' = 0
  /\ IF ~ connOk
     THEN /\ Exit("conn_error")
          /\ openConns' = 0 /\ opened' = 0
          /\ UNCHANGED <<year_list, pk>>
     ELSE /\ openConns' = 1 /\ opened' = 1
          /\ year_list' = Nlst(remote, Resolve(<<>>, <<BF>>))
          /\ pk' = DropConstraint(pk, sqlOk)
          /\ pc' = "bf_year" /\ exitKind' = "none"
  /\ tsv_dir_dict' = <<>>
  /\ ftpAlive' = connOk
  /\ UNCHANGED localFiles
  /\ UNCHANGED <<remote, backlogFile, table, driver>>

\* whether the loop body runs for a listed year directory
YearInRange(year, sy, ey) == YearNum(year) >= sy /\ YearNum(year) <= ey

\* each file's rows replace the rows collected before it
YearDf_LastFileOnly(files, bad, nocols, disk) ==
  LET Step[i \in 0..Len(files)] ==
        IF i = 0 THEN [err |-> "none", rows |-> <<>>, disk |-> disk]
        ELSE LET prev == Step[i-1]
             IN IF prev.err # "none" THEN prev
                ELSE IF ~ EndsTsvGz(files[i]) THEN prev
                ELSE IF files[i] \in bad \/ files[i] \in nocols
                  THEN [err |-> "parse_error", rows |-> <<>>,
                        disk |-> AfterParse(prev.disk \cup {files[i]}, files[i], bad, nocols)]
                ELSE [err |-> "none", rows |-> ParseRows(files[i]),
                      disk |-> AfterParse(prev.disk \cup {files[i]}, files[i], bad, nocols)]
  IN Step[Len(files)]

\* the inner loop over the files of a year directory
\* bad, nocols and disk as in get_frontfile_df
YearDf(files, bad, nocols, disk) ==
  LET Step[i \in 0..Len(files)] ==
        IF i = 0 THEN [err |-> "none", rows |-> <<>>, disk |-> disk]
        ELSE LET prev == Step[i-1]
             IN IF prev.err # "none" THEN prev
                ELSE IF ~ EndsTsvGz(files[i]) THEN prev
                ELSE IF files[i] \in bad \/ files[i] \in nocols
                  THEN [err |-> "parse_error", rows |-> <<>>,
                        disk |-> AfterParse(prev.disk \cup {files[i]}, files[i], bad, nocols)]
                ELSE [err |-> "none", rows |-> prev.rows \o ParseRows(files[i]),
                      disk |-> AfterParse(prev.disk \cup {files[i]}, files[i], bad, nocols)]
  IN Step[Len(files)]

\* one iteration of the loop over year_list, up to the call of dfloader
BFYear(connOk, bad, nocols) ==
  /\ pc = "bf_year"
  /\ idx <= Len(year_list)
  /\ LET year  == year_list[idx]
         files == Nlst(remote, Resolve(<<>>, <<BF, SL, year>>))
         res   == YearDf(files, bad, nocols, localFiles)
     IN IF ~ YearInRange(year, start_year, end_year)
        THEN /\ idx' = idx + 1
             /\ UNCHANGED <<pc, exitKind, df, openConns, opened, visited, localFiles,
                            ftpAlive>>
        ELSE IF ~ connOk
        THEN /\ Exit("conn_error")
             /\ UNCHANGED <<idx, df, openConns, opened, visited, localFiles, ftpAlive>>
        ELSE /\ opened' = opened + 1
             /\ visited' = Append(visited, <<BF, SL, year>>)
             /\ IF files = <<>>
                THEN \* empty directory: continue, the connection stays open
                     /\ idx' = idx + 1
                     /\ openConns' = openConns + 1
                     /\ ftpAlive' = TRUE
                     /\ UNCHANGED <<pc, exitKind, df, localFiles>>
                ELSE IF res.err # "none"
                THEN /\ Exit(res.err)
                     /\ openConns' = openConns + 1
                     /\ ftpAlive' = TRUE
                     /\ localFiles' = res.disk
                     /\ UNCHANGED <<idx, df>>
                ELSE \* ftp.quit()
                     /\ UNCHANGED openConns
                     /\ ftpAlive' = FALSE
                     /\ localFiles' = res.disk
                     /\ IF res.rows = <<>>
                        THEN /\ idx' = idx + 1
                             /\ UNCHANGED <<pc, exitKind, df>>
                        ELSE /\ df' = DropDuplicates(res.rows)
                             /\ pc' = "bf_dfloader"
                             /\ UNCHANGED <<idx, exitKind>>
  /\ UNCHANGED <<remote, backlogFile, table, pk, driver, runs, mode, frontfile_dir_list,
                 old_tbl_count, year_list, start_year, end_year, loaded,
                 tsv_dir_dict>>

\* after the loop: ADD PRIMARY KEY inside try/except: pass, then return
BFAddPK(sqlOk) ==
  /\ pc = "bf_year"
  /\ idx > Len(year_list)
  /\ pk' = (pk \/ AddKeySucceeds(table, pk, sqlOk))
  /\ Exit("ok")
  /\ UNCHANGED <<remote, backlogFile, table, driver, runs, mode, frontfile_dir_list, idx,
                 df, visited, old_tbl_count, openConns, opened, year_list, start_year,
                 end_year, loaded,
                 tsv_dir_dict, localFiles, ftpAlive>>

\* ------------------------------------------------------------------------
\* Specification
\* ------------------------------------------------------------------------
Opt(S) == S \cup {None}
Today == YearNums \X MonthNums \X DayNums
DataFiles == {DataFile(d) : d \in DayNums} \cup {ExtraFile(d) : d \in DayNums}
                \cup {"b1.chemicals.tsv.gz", "b2.chemicals.tsv.gz", "b3.chemicals.tsv.gz"}
BadSets == {{}} \cup {{f} : f \in DataFiles}
\* the files that read as a table but lack one of the four columns
NoColSets == {{}, {DataFile(1)}, {"b2.chemicals.tsv.gz"}}
\* at most one file fails in a step, in one of the two ways
Faults == {[bad |-> b, nocols |-> {}] : b \in BadSets}
            \cup {[bad |-> {}, nocols |-> n] : n \in NoColSets}

Next ==
  \/ \E d \in DayNums, layout \in Layouts : Publish(d, layout)
  \/ \E cd \in Opt(DayNums), cm \in Opt(MonthNums), cy \in Opt(YearNums),
        today \in Today, connOk \in BOOLEAN : FFStart(cd, cm, cy, today, connOk)
  \/ \E nlOutcome \in {"value_error", "not_found"}, f \in Faults :
        FFVisit(nlOutcome, f.bad, f.nocols)
  \/ FFFinish
  \/ \E sqlOk \in BOOLEAN : FFDrop(sqlOk)
  \/ \E outcome \in {"ok", "append_error", "dedup_error"} : Dfloader(outcome)
  \/ \E sqlOk \in BOOLEAN : FFAddPK(sqlOk)
  \/ \E sy \in YearArgs, ey \in YearArgs, connOk \in BOOLEAN, sqlOk \in BOOLEAN :
        BFStart(sy, ey, connOk, sqlOk)
  \/ \E connOk \in BOOLEAN, f \in Faults :
        BFYear(connOk, f.bad, f.nocols)
  \/ \E sqlOk \in BOOLEAN : BFAddPK(sqlOk)

Spec == Init /\ [][Next]_vars

TypeOK ==
  /\ pk \in BOOLEAN
  /\ pc \in {"idle", "ff_visit", "ff_drop", "ff_dfloader", "ff_addpk", "bf_year", "bf_dfloader"}
  /\ runs \in 0..MaxRuns

\* ------------------------------------------------------------------------
\* Loading one row set twice into an empty table
\* ------------------------------------------------------------------------
MaxRows == 2
IdemRows == {Row(k, v) : k \in {1, 2}, v \in {"a", "b"}}
IdemRowSets == UNION {[1..n -> IdemRows] : n \in 0..MaxRows}

InitIdem ==
  /\ remote = [d \in DayNums |-> Absent]
  /\ backlogFile = NoBacklog
  /\ table = <<>>
  /\ pk \in BOOLEAN
  /\ driver \in Drivers
  /\ pc = "ff_drop"
  /\ runs = 1
  /\ mode = "day"
  /\ frontfile_dir_list = <<>>
  /\ idx = 1
  /\ df \in IdemRowSets
  /\ visited = <<>>
  /\ old_tbl_count = 0
  /\ exitKind = "none"
  /\ openConns = 0
  /\ opened = 1
  /\ year_list = <<>>
  /\ start_year = None
  /\ end_year = None
  /\ loaded = 0
  /\ tsv_dir_dict = <<>>
  /\ localFiles = {}
  /\ ftpAlive = FALSE

\* the same row set is loaded again after a load that succeeded
LoadAgain ==
  /\ pc = "idle"
  /\ exitKind = "ok"
  /\ runs = 1
  /\ runs' = 2
  /\ pc' = "ff_drop"
  /\ exitKind' = "none"
  /\ old_tbl_count' = Len(table)
  /\ UNCHANGED <<remote, backlogFile, table, pk, driver, mode, frontfile_dir_list, idx, df,
                 visited, openConns, opened, year_list, start_year, end_year, loaded,
                 tsv_dir_dict, localFiles, ftpAlive>>

NextIdem ==
  \/ \E sqlOk \in BOOLEAN : FFDrop(sqlOk)
  \/ \E outcome \in {"ok", "append_error", "dedup_error"} : Dfloader(outcome)
  \/ \E sqlOk \in BOOLEAN : FFAddPK(sqlOk)
  \/ LoadAgain

SpecIdem == InitIdem /\ [][NextIdem]_vars

\* ------------------------------------------------------------------------
\* Properties
\* ------------------------------------------------------------------------
Terminated == pc = "idle" /\ exitKind # "none"
StrippedSet(paths) == {RStripNL(paths[i]) : i \in 1..Len(paths)}

\* C1: when a today-mode run has terminated, every backlog entry read at its
\* start (the entries of the list after today's path) was either visited in the
\* run or is recorded in the backlog file.
C1_NoBacklogEntryLost ==
  (Terminated /\ mode = "today") =>
    \A i \in 2..Len(frontfile_dir_list) :
      LET entry == RStripNL(frontfile_dir_list[i])
      IN \/ entry \in StrippedSet(visited)
         \/ entry \in StrippedSet(BacklogLines(backlogFile))

\* C2: a partition reported not-found is the last line of the backlog file after
\* the run, and the paths a today-mode run reads back from the backlog and passes
\* to change-directory are the paths as written, without a line terminator.
C2_BacklogRoundTrip ==
  /\ (Terminated /\ exitKind = "backlog_halt") =>
       /\ backlogFile.exists
       /\ LET lines == BacklogLines(backlogFile)
          IN /\ lines # <<>>
             /\ lines[Len(lines)] = frontfile_dir_list[idx] \o <<NL>>
  /\ mode = "today" =>
       \A i \in 2..Len(frontfile_dir_list) : ~ HasNL(frontfile_dir_list[i])

\* C3: a run that returns normally leaves the primary-key constraint attached.
C3_KeyRestored == (Terminated /\ exitKind = "ok") => pk

\* C4: a dfloader call that completes leaves exactly one row for every key of
\* the table before it and of the input rows, and no other row; the constraint
\* drop and re-add around it, and the fetch steps, leave the rows alone.
C4_LoadReconciles ==
  [][ /\ (pc \in {"ff_dfloader", "bf_dfloader"} /\ pc' \in {"ff_addpk", "bf_year"}) =>
           /\ KeySet(table') = KeySet(table) \cup KeySet(df)
           /\ ~ HasDupKeys(table')
      /\ pc \in {"ff_visit", "ff_drop", "ff_addpk", "bf_year"} => table' = table
    ]_vars

\* C4 witness: a front-file load completed on a table that already held rows,
\* with keys shared between the table and the input and keys on one side only.
C4_Witness ==
  /\ Terminated /\ exitKind = "ok" /\ mode \in {"today", "year", "month", "day"}
  /\ old_tbl_count > 0
  /\ Len(table) < old_tbl_count + Len(df)
  /\ Len(table) > old_tbl_count
  /\ Len(table) > Len(df)
  /\ pk

\* the rows of a table as a bag
SameContent(a, b) ==
  /\ Len(a) = Len(b)
  /\ \A r \in Range(a) \cup Range(b) :
       Cardinality({i \in 1..Len(a) : a[i] = r}) = Cardinality({i \in 1..Len(b) : b[i] = r})

\* C5: when row set df has been loaded a second time into a table that was
\* empty before the first load, the table holds what one load of df into the
\* empty table yields, row for row.
C5_DedupIdempotent ==
  (runs = 2 /\ (pc = "ff_addpk" \/ (pc = "idle" /\ exitKind = "ok"))) =>
    SameContent(table, DedupRows(AppendRows(<<>>, df), driver))

\* C5 witness: the second load of a non-empty row set with a repeated key
\* has completed.
C5_Witness ==
  /\ runs = 2 /\ pc = "idle" /\ exitKind = "ok"
  /\ HasDupKeys(df)
  /\ table # <<>>

\* C6: when changing into the partition at the loop position reports
\* not-found, that step appends the partition's path and a line terminator to
\* the backlog file and ends the run, visiting nothing; and between runs
\* nothing is visited.
C6_FailFast ==
  [][ /\ ( /\ pc = "ff_visit" /\ idx <= Len(frontfile_dir_list)
           /\ \/ /\ ~ HasNL(frontfile_dir_list[idx])
                 /\ ~ DirExists(remote, Resolve(<<>>, frontfile_dir_list[idx]))
              \/ backlogFile' # backlogFile ) =>
           /\ backlogFile' = BacklogAppend(backlogFile, frontfile_dir_list[idx])
           /\ pc' = "idle"
           /\ exitKind' = "backlog_halt"
           /\ visited' = visited
           /\ df' = df
           /\ table' = table
      /\ pc = "idle" => (visited' = visited \/ (runs' = runs + 1 /\ visited' = <<>>))
    ]_vars

\* C6 witness: a run halted on a not-found partition that was not the last of
\* its list.
C6_Witness ==
  /\ Terminated /\ exitKind = "backlog_halt"
  /\ idx < Len(frontfile_dir_list)
  /\ Len(visited) = idx - 1
  /\ backlogFile.exists

\* C7: a run rejected for an invalid date-mode combination has opened no
\* transport connection.
C7_ValidateBeforeConnect == (Terminated /\ exitKind = "config_error") => opened = 0

\* C8: in a back-file run, once a year has been loaded the constraint is
\* attached whenever the loop is about to process the next year.
C8_KeyPerYear == (pc = "bf_year" /\ loaded > 0) => pk

\* C9: a terminated run leaves the table reconciled with its key attached,
\* unless it ended with more than one manifest or a failed re-attach of the key.
C9_TerminatedState ==
  Terminated =>
    \/ pk /\ ~ HasDupKeys(table)
    \/ exitKind \in {"invariant_violation", "addpk_error"}

\* C10: when a today-mode run with a non-empty backlog whose partitions all
\* exist ends, without a connection, parse or SQL failure interrupting it, it
\* returns normally having visited every one of them, with the rows collected
\* from them in the table once each and the backlog file empty or absent.
C10_TodayWithBacklog ==
  [][ ( /\ pc # "idle" /\ pc' = "idle" /\ mode = "today"
        /\ Len(frontfile_dir_list) > 1
        /\ \A i \in 1..Len(frontfile_dir_list) :
             DirExists(remote, Resolve(<<>>, RStripNL(frontfile_dir_list[i])))
        /\ exitKind' \in {"ok", "no_records", "backlog_halt", "value_error"} ) =>
        /\ exitKind' \in {"ok", "no_records"}
        /\ StrippedSet(frontfile_dir_list) \subseteq StrippedSet(visited')
        /\ backlogFile'.text = <<>>
        /\ exitKind' = "ok" =>
             /\ KeySet(df) \subseteq KeySet(table')
             /\ ~ HasDupKeys(table')
             /\ Len(table') - old_tbl_count <= Len(df)
    ]_vars

\* ------------------------------------------------------------------------
\* The lister and the fetcher over every layout of the day directories
\* ------------------------------------------------------------------------
\* a month-mode run that has resolved its list, on a server whose day
\* directories have any of the layouts
InitLister ==
  /\ remote \in [DayNums -> ListerLayouts \cup {Absent}]
  /\ backlogFile = NoBacklog
  /\ table = <<>>
  /\ pk = TRUE
  /\ driver \in Drivers
  /\ pc = "ff_visit"
  /\ runs = 1
  /\ mode = "month"
  /\ frontfile_dir_list =
       MonthModeList(remote, <<FF, SL, RemoteYearName, SL, RemoteMonthName>>)
  /\ idx = 1
  /\ df = <<>>
  /\ visited = <<>>
  /\ old_tbl_count = 0
  /\ exitKind = "none"
  /\ openConns = 1
  /\ opened = 1
  /\ year_list = <<>>
  /\ start_year = None
  /\ end_year = None
  /\ loaded = 0
  /\ tsv_dir_dict = <<>>
  /\ localFiles = {}
  /\ ftpAlive = TRUE

NextLister ==
  \/ \E nlOutcome \in {"value_error", "not_found"}, f \in Faults :
        FFVisit(nlOutcome, f.bad, f.nocols)
  \/ FFFinish

SpecLister == InitLister /\ [][NextLister]_vars

\* the directory get_tsv_dir listed last, when it returned a mapping
Listed == visited # <<>> /\ exitKind # "invariant_violation"
LastDir == Resolve(<<>>, visited[Len(visited)])

\* C11: when the listed partition holds newfiles.txt, every entry of the
\* mapping is the directory and the file name of a data line of newfiles.txt;
\* the loose files give no entry, also when no line gives one.
C11_ManifestPrecedence ==
  (Listed /\ MANIFEST \in Range(Nlst(remote, LastDir))) =>
    \A k \in 1..Len(tsv_dir_dict) :
      \E line \in Range(ReadLines(ManifestOf(remote, LastDir))) :
        /\ LineIsData(line)
        /\ line = tsv_dir_dict[k][1] \o <<SL>> \o tsv_dir_dict[k][2] \o <<NL>>

\* C11 witness: a partition with newfiles.txt and a loose data file was
\* listed, its newfiles.txt named no data file, and the mapping is empty.
C11_Witness ==
  /\ Listed
  /\ pc = "ff_visit"
  /\ MANIFEST \in Range(Nlst(remote, LastDir))
  /\ \E t \in Range(Nlst(remote, LastDir)) : EndsChemTsvGz(t) /\ ~ NameHasSupp(t)
  /\ ~ \E line \in Range(ReadLines(ManifestOf(remote, LastDir))) : LineIsData(line)
  /\ tsv_dir_dict = <<>>

\* C12: a run never holds more than one open connection, and a run that has
\* ended normally, by the backlog halt or with no records has closed every
\* connection it opened.
C12_ConnectionLifecycle ==
  /\ openConns <= 1
  /\ (Terminated /\ exitKind \in {"ok", "backlog_halt", "no_records"}) => openConns = 0

\* the year directories of the listing whose year lies in [sy, ey], in order
YearsWithin(sy, ey) ==
  LET F[i \in 0..Len(year_list)] ==
        IF i = 0 THEN <<>>
        ELSE IF YearNum(year_list[i]) >= sy /\ YearNum(year_list[i]) <= ey
             THEN Append(F[i-1], <<BF, SL, year_list[i]>>)
             ELSE F[i-1]
  IN F[Len(year_list)]

\* C13: a back-file run asked for start_year > end_year ends as an error,
\* and one asked for start_year <= end_year that completes has visited
\* exactly the listed year directories within the range.
C13_YearRange ==
  (Terminated /\ mode = "back" /\ exitKind # "conn_error") =>
    /\ start_year > end_year => exitKind # "ok"
    /\ (start_year <= end_year /\ exitKind = "ok") =>
         visited = YearsWithin(start_year, end_year)

\* C14: in month mode the resolved list holds exactly one path per day
\* directory of the month's listing, in listing order, each of the form
\* data/external/frontfile/<year>/<two-digit month>/<day>.
C14_MonthModeList ==
  (mode = "month" /\ pc = "ff_visit") =>
    LET days == Nlst(remote, <<"data/external/frontfile", "2024", "06">>)
    IN /\ Len(frontfile_dir_list) = Len(days)
       /\ \A k \in 1..Len(days) :
            frontfile_dir_list[k] =
              <<"data/external/frontfile", "/", "2024", "/", "06", "/", days[k]>>

\* C14 witness: a month-mode run resolved a list of two day directories.
C14_Witness ==
  /\ mode = "month"
  /\ pc = "ff_visit"
  /\ Len(frontfile_dir_list) = 2
  /\ frontfile_dir_list[1] # frontfile_dir_list[2]

\* C15: a dfloader call that completes keeps, for every key with several rows
\* after the append, the row with the lowest row identifier (the earliest
\* inserted one), whichever the driver.
C15_KeepsLowestRowId ==
  [][ (pc \in {"ff_dfloader", "bf_dfloader"} /\ pc' \in {"ff_addpk", "bf_year"}) =>
        LET all == table \o df
        IN \A r \in Range(table') :
             \E i \in 1..Len(all) :
               /\ all[i] = r
               /\ \A j \in 1..(i - 1) : all[j].id # r.id
    ]_vars

\* C16: the mapping returned for a listed partition has one entry per data
\* file: one per data line of newfiles.txt when it is present, otherwise one
\* per listed file with the data-file suffix.
C16_OneEntryPerDataFile ==
  Listed =>
    LET names == Nlst(remote, LastDir)
        lines == ReadLines(ManifestOf(remote, LastDir))
    IN IF MANIFEST \in Range(names)
       THEN Len(tsv_dir_dict) =
              Cardinality({i \in 1..Len(lines) : LineIsData(lines[i])})
       ELSE Len(tsv_dir_dict) =
              Cardinality({i \in 1..Len(names) : EndsChemTsvGz(names[i])})

\* the rows get_frontfile_df returns for a partition whose files all parse
PartitionRows(ff_dir) ==
  GetFrontfileDf(remote, GetTsvDir(remote, Resolve(<<>>, ff_dir)).dict, <<>>, {}, {}, {}).rows

\* C17: a front-file run starts the load (constraint drop, dfloader,
\* constraint re-add) only from the end of the loop, with every partition of
\* the list visited and a non-empty row set with one row per key of the
\* visited partitions; once started the load never goes back to visiting, so
\* it happens at most once; a loop that ends with no rows ends the run with
\* the table and the constraint untouched.
C17_LoadOnceAfterAll ==
  [][ /\ (pc # "ff_drop" /\ pc' = "ff_drop") =>
           /\ pc = "ff_visit"
           /\ visited = frontfile_dir_list
           /\ df # <<>>
           /\ ~ HasDupKeys(df)
           /\ KeySet(df) = UNION {KeySet(PartitionRows(visited[i])) : i \in 1..Len(visited)}
      /\ pc = "ff_drop" => (pc' = "ff_dfloader" /\ table' = table /\ df' = df)
      /\ pc = "ff_dfloader" => (pc' \in {"ff_addpk", "idle"} /\ df' = df)
      /\ pc = "ff_addpk" => (pc' = "idle" /\ table' = table)
      /\ (pc = "ff_visit" /\ idx > Len(frontfile_dir_list) /\ df = <<>>) =>
           /\ pc' = "idle" /\ exitKind' = "no_records"
           /\ table' = table /\ pk' = pk
    ]_vars

\* C17 witness: the load of a run that visited two partitions has appended
\* rows of both.
C17_Witness ==
  /\ pc = "ff_addpk"
  /\ Len(visited) = 2
  /\ {1, 3} \subseteq KeySet(df)
  /\ KeySet(df) \subseteq KeySet(table)

\* ------------------------------------------------------------------------
\* Front-file runs started with a backlog file of several entries
\* ------------------------------------------------------------------------
MaxBacklog == 2

\* the backlog files earlier halted runs leave: up to MaxBacklog lines, each
\* the path of a day and its terminator
BacklogTexts ==
  LET line(d) == DayPath(2024, 6, d) \o <<NL>>
      Texts[n \in 0..MaxBacklog] ==
        IF n = 0 THEN {<<>>}
        ELSE {t \o line(d) : t \in Texts[n-1], d \in DayNums}
  IN UNION {Texts[n] : n \in 1..MaxBacklog}

InitToday ==
  /\ remote \in [DayNums -> Layouts \cup {Absent}]
  /\ backlogFile \in {NoBacklog} \cup {[exists |-> TRUE, text |-> t] : t \in BacklogTexts}
  /\ table = <<>>
  /\ pk = TRUE
  /\ driver \in Drivers
  /\ pc = "idle"
  /\ runs = 0
  /\ mode = "none"
  /\ frontfile_dir_list = <<>>
  /\ idx = 1
  /\ df = <<>>
  /\ visited = <<>>
  /\ old_tbl_count = 0
  /\ exitKind = "none"
  /\ openConns = 0
  /\ opened = 0
  /\ year_list = <<>>
  /\ start_year = None
  /\ end_year = None
  /\ loaded = 0
  /\ tsv_dir_dict = <<>>
  /\ localFiles = {}
  /\ ftpAlive = FALSE

NextToday ==
  \/ \E cd \in Opt(DayNums), cm \in Opt(MonthNums), cy \in Opt(YearNums),
        today \in Today, connOk \in BOOLEAN : FFStart(cd, cm, cy, today, connOk)
  \/ \E nlOutcome \in {"value_error", "not_found"}, f \in Faults :
        FFVisit(nlOutcome, f.bad, f.nocols)
  \/ FFFinish

SpecToday == InitToday /\ [][NextToday]_vars

\* C18: the step that resolves the list of a today-mode run puts the path of
\* a current date first and after it the lines of the backlog file in file
\* order (compared without their terminator), and removes the file in that
\* same step, before any partition is visited; the step of a run in another
\* mode leaves the backlog file as it is and takes nothing from it.
C18_TodayResolution ==
  [][ (pc = "idle" /\ pc' = "ff_visit") =>
        LET entries == IF backlogFile.exists THEN ReadLines(backlogFile.text) ELSE <<>>
        IN /\ visited' = <<>>
           /\ mode' = "today" =>
                /\ \E d \in DayNums : frontfile_dir_list'[1] =
                     <<"data/external/frontfile", "/", "2024", "/", "06", "/", RemoteDayName(d)>>
                /\ Len(frontfile_dir_list') = 1 + Len(entries)
                /\ \A k \in 1..Len(entries) :
                     RStripNL(frontfile_dir_list'[k + 1]) = RStripNL(entries[k])
                /\ backlogFile' = NoBacklog
           /\ mode' # "today" =>
                /\ backlogFile' = backlogFile
                /\ \A k \in 1..Len(frontfile_dir_list') : ~ HasNL(frontfile_dir_list'[k])
    ]_vars

\* C18 witness: a today-mode run resolved its list from a backlog file of
\* two different entries, neither of them today's path, and the file is gone.
C18_Witness ==
  /\ mode = "today"
  /\ pc = "ff_visit"
  /\ visited = <<>>
  /\ Len(frontfile_dir_list) = 3
  /\ RStripNL(frontfile_dir_list[2]) # RStripNL(frontfile_dir_list[3])
  /\ ~ backlogFile.exists

\* the rows of the files named by a partition's mapping, file after file in
\* the mapping's iteration order
MappedRows(ff_dir) ==
  LET dict == GetTsvDir(remote, Resolve(<<>>, ff_dir)).dict
      F[k \in 0..Len(dict)] ==
        IF k = 0 THEN <<>> ELSE F[k-1] \o FileRows(dict[k][2][1])
  IN F[Len(dict)]

\* the same over the visited partitions in visit order
VisitedRows ==
  LET F[i \in 0..Len(visited)] ==
        IF i = 0 THEN <<>> ELSE F[i-1] \o MappedRows(visited[i])
  IN F[Len(visited)]

\* C19: while the visits succeed, the collected row set holds exactly one row
\* for every key occurring in a fetched file, and the row kept for a key is
\* its first occurrence, taking the files in the mapping's iteration order
\* and the partitions in visit order.
C19_FirstSeenWins ==
  (pc \in {"ff_visit", "ff_drop"} \/ exitKind = "no_records") =>
    /\ KeySet(df) = KeySet(VisitedRows)
    /\ ~ HasDupKeys(df)
    /\ \A r \in Range(df) :
         \E i \in 1..Len(VisitedRows) :
           /\ VisitedRows[i] = r
           /\ \A j \in 1..(i - 1) : VisitedRows[j].id # r.id

\* C19 witness: one partition was visited, its mapping names two files that
\* share a key, and the row set holds the three keys of the two files.
C19_Witness ==
  /\ pc = "ff_visit"
  /\ Len(visited) = 1
  /\ Len(tsv_dir_dict) = 2
  /\ Len(df) = 3
  /\ Len(MappedRows(visited[1])) > 3

\* the data files of the year directory the back-file loop stands at
YearFiles ==
  LET names == Nlst(remote, <<"data/external/backfile", year_list[idx]>>)
  IN {names[i] : i \in {j \in 1..Len(names) : EndsTsvGz(names[j])}}

\* C20: an iteration of the back-file loop over a year in range whose
\* listing is empty or holds no data file loads nothing and goes on to the
\* next year; an iteration that hands rows to dfloader hands one row per
\* distinct key of the year's files, which for two files is the sum of their
\* row counts minus the number of keys they share.
C20_YearLoad ==
  [][ (/\ pc = "bf_year" /\ idx <= Len(year_list)
       /\ YearInRange(year_list[idx], start_year, end_year)
       /\ exitKind' \notin {"conn_error", "parse_error"}) =>
        /\ YearFiles = {} =>
             /\ pc' = "bf_year" /\ idx' = idx + 1 /\ exitKind' = "none"
             /\ table' = table /\ loaded' = loaded
        /\ YearFiles # {} =>
             /\ pc' = "bf_dfloader"
             /\ ~ HasDupKeys(df')
             /\ KeySet(df') = UNION {KeySet(FileRows(f)) : f \in YearFiles}
             /\ \A f, g \in YearFiles :
                  (f # g /\ YearFiles = {f, g}) =>
                    Len(df') = Len(ParseRows(f)) + Len(ParseRows(g))
                               - Cardinality(KeySet(FileRows(f)) \cap KeySet(FileRows(g)))
    ]_vars

\* C20 witness: a run skipped the year without data files and the empty
\* year, and stands at dfloader with the three rows of the two files of a
\* later year that share one key.
C20_Witness ==
  /\ pc = "bf_dfloader"
  /\ year_list[idx] = "1952_a"
  /\ Len(df) = 3
  /\ Len(visited) = 4
  /\ loaded = 1

\* C21: a fetch step that succeeds, or that fails because a retrieved file
\* could not be opened, decompressed or parsed into the four required
\* columns, leaves no local copy of a data file behind that was not there
\* before the step.
C21_NoLocalCopyLeft ==
  [][ (pc \in {"ff_visit", "bf_year"} /\ exitKind' \in {"none", "parse_error"}) =>
        localFiles' \subseteq localFiles
    ]_vars

\* C22: an iteration of the back-file loop opens a connection only when the
\* connection it holds is no longer open; while that connection is open the
\* iteration opens none.
C22_ReconnectOnlyIfStale ==
  [][ (pc = "bf_year" /\ opened' > opened) => ~ ftpAlive ]_vars

\* C23: the steps of a front-file run before the load (resolving the list,
\* visiting a partition, leaving the loop) keep the rows of the table and its
\* primary-key constraint, and a run that ends by the backlog halt or with no
\* records ends from among those steps: the table and the constraint are then
\* as they were before the run, whatever rows the run had fetched.
C23_NoLoadNoChange ==
  [][ /\ ((pc = "idle" /\ pc' = "ff_visit") \/ pc = "ff_visit") =>
           (table' = table /\ pk' = pk)
      /\ (pc # "idle" /\ pc' = "idle" /\ exitKind' \in {"backlog_halt", "no_records"}) =>
           (pc = "ff_visit" /\ table' = table /\ pk' = pk)
    ]_vars

\* C23 witness: a run halted by writing the backlog after it had fetched the
\* rows of an earlier partition of its list; the constraint is attached.
C23_Witness ==
  /\ Terminated
  /\ exitKind = "backlog_halt"
  /\ visited # <<>>
  /\ df # <<>>
  /\ pk

\* C24: for every entry of the mapping returned for a listed partition, the
\* directory get_frontfile_df changes into from the connection's start
\* directory, 'data/external/frontfile' followed by the entry's key, exists
\* and holds the file the entry names.
C24_PathAgreement ==
  Listed =>
    \A k \in 1..Len(tsv_dir_dict) :
      LET target == Resolve(<<>>, <<FF>> \o tsv_dir_dict[k][1])
      IN /\ DirExists(remote, target)
         /\ tsv_dir_dict[k][2] \in {<<t>> : t \in Range(Nlst(remote, target))}

====
